---- MODULE Spec2Model ----
(***************************************************************************)
(* Conversation/context management of SmolD: the bounded history store     *)
(* (ConversationHistory), the ContextManager composing it with the system  *)
(* prompt, the SmolDAgent orchestrator and the interactive session's model *)
(* switch.  A text is the sequence of its tokens, so count_tokens is the   *)
(* length of that sequence.                                                *)
(***************************************************************************)
EXTENDS Integers, Sequences, FiniteSets, TLC

\* ---------------------------------------------------------------- bounds
MaxInteractionsBound == 2
MaxTokensBound == 16
MaxTextLen == 2
MaxPromptLen == 2
MaxAdds == 3
MaxCalls == 2
MaxMessages == 2
MaxCommandLen == 2
MaxCommands == 2
MaxLines == 1
MaxPatches == 2
MaxRequestLen == 2

\* ------------------------------------------------------------- constants
tokens_per_message == 3
\* the tokens of a role name ("system", "user", "assistant")
role_tokens == 1
tokens_per_name == 1

\* ---------------------------------------------------------------- inputs
Texts == {[i \in 1..n |-> "w"] : n \in {0, MaxTextLen}}
Dirs == {"home", "proj"}
get_system_prompt(cwd) ==
    IF cwd = "home" THEN [i \in 1..1 |-> cwd] ELSE [i \in 1..MaxPromptLen |-> cwd]
Prompts == {<<>>} \cup {get_system_prompt(d) : d \in Dirs}
Overheads == {0, MaxPromptLen}
InteractionLimits == 0..MaxInteractionsBound
TokenLimits == {1, 7, MaxTokensBound}
\* what one call of base_agent.run does: return a text or raise
DriverOutcomes ==
    {[ok |-> TRUE, text |-> t] : t \in Texts} \cup {[ok |-> FALSE, text |-> <<>>]}
\* the attribute under which a driver keeps its message buffer: the three
\* names clear_conversation probes, and one it does not
ProbedAttrs == {"history", "chat_history", "messages"}
DriverBufferAttrs == ProbedAttrs \cup {"memory"}
\* base_agent.tool_calls: the driver exposes run(query, reset) and no
\* attribute tool_calls, so run finds none to log
driver_tool_calls == <<>>
\* a text the tokenizer refuses to encode (a special token of the encoding)
SpecialToken == "<|endoftext|>"
ModelIds == {"gemini/gemini-2.5-flash", "gemini/gemini-2.5-pro"}

VARIABLES
    max_interactions,           \* ConversationHistory.max_interactions
    max_tokens,                 \* ConversationHistory.max_tokens
    history,                    \* ConversationHistory.history (deque)
    interaction_token_counts,   \* ConversationHistory.interaction_token_counts
    total_tokens,               \* ConversationHistory.total_tokens
    system_prompt,              \* ContextManager.system_prompt
    max_context_tokens,         \* ContextManager.max_context_tokens
    call_counter,               \* SmolDAgent.call_counter
    model_id,                   \* agent.model.model_id of the session's agent
    driver_memory,              \* base_agent's own buffer of past exchanges
    driver_buffer_attr,         \* the attribute of base_agent holding it
    debug_enabled,              \* DebugLogger.enabled of the global logger
    debug_files,                \* the files of the logger's session in debug_dir
    inserted,                   \* log: interactions given to add_interaction
    over_budget,                \* log: a trim check found the budget exceeded
    lastOp,                     \* log: the last operation and its outcome
    message_list,               \* the message list last given to the counters
    token_totals,               \* what the two message counters made of it
    working_directory,          \* os.getcwd() of the process
    previous_directory,         \* ChangeDirectoryTool.previous_directory
    cd_last,                    \* log: the last forward of the cd tool
    shell_alive,                \* BashTool.shell_process.poll() is None
    pipe,                       \* unread lines of the shell's stdout
    bash_calls,                 \* number of BashTool.forward calls so far
    shell_last,                 \* log: the last forward of a shell tool
    completion_patches,         \* litellm.completion: the wrappers' prompts
    last_request                \* log: the last request given to the LLM API

agentvars == <<max_interactions, max_tokens, history, interaction_token_counts,
               total_tokens, system_prompt, max_context_tokens, call_counter,
               model_id, driver_memory, driver_buffer_attr, debug_enabled,
               debug_files, inserted, over_budget, lastOp>>

\* the state outside the agent: the token counters' last call, the cd tool,
\* the shell tools, the completion function of litellm
TokenVars == <<message_list, token_totals>>
CdVars == <<working_directory, previous_directory, cd_last>>
ShellVars == <<shell_alive, pipe, bash_calls, shell_last>>
LlmVars == <<completion_patches, last_request>>
Tools == <<TokenVars, CdVars, ShellVars, LlmVars>>

vars == <<agentvars, Tools>>

\* self.previous_directory = None
None == "None"

\* the log of a cd tool that has not been called
NoCd == [path |-> "", result |-> <<>>, cwd_before |-> "", previous_before |-> None,
         changed_from |-> None]

\* nothing outside the agent has been called
TokensIdle ==
    /\ message_list = <<>>
    /\ token_totals = [history |-> 3, council |-> [raised |-> FALSE, total |-> 3]]

CdIdle ==
    /\ working_directory = "/w"
    /\ previous_directory = None
    /\ cd_last = NoCd

\* the log of shell tools that have not been called
NoShell ==
    [tool |-> "", id |-> 0, command |-> <<>>, timeout |-> <<>>, raised |-> FALSE,
     result |-> "", sent |-> FALSE, started |-> FALSE, lines |-> <<>>, marker |-> 0]

\* bash_tool = BashTool() starts the persistent shell when the module loads
ShellIdle ==
    /\ shell_alive = TRUE
    /\ pipe = <<>>
    /\ bash_calls = 0
    /\ shell_last = NoShell

\* the log before any completion request
NoRequest == [sent |-> FALSE, given |-> <<>>, messages |-> <<>>, current |-> <<>>]

\* litellm.completion as imported: no wrapper around it
LlmIdle ==
    /\ completion_patches = <<>>
    /\ last_request = NoRequest

ToolsIdle == TokensIdle /\ CdIdle /\ ShellIdle /\ LlmIdle

\* --------------------------------------------------------------- helpers
\* ConversationHistory.__init__: the empty store
EmptyStore == [history |-> <<>>, counts |-> <<>>, total |-> 0]

Min(a, b) == IF a < b THEN a ELSE b

\* tokenizer.encode(text) raises on a text that holds a special token
encodes(text) == \A i \in 1..Len(text) : text[i] # SpecialToken

\* len(encoding.encode(text)) of a text that encodes
encoded_len(text) == Len(text)

\* len(text): a word stands for 4 characters, the special token has 13
RECURSIVE text_chars(_)
text_chars(text) ==
    IF text = <<>> THEN 0
    ELSE (IF Head(text) = SpecialToken THEN 13 ELSE 4) + text_chars(Tail(text))

\* count_tokens: len(self.tokenizer.encode(text)), and len(text) // 4 when
\* encode raises
count_tokens(text) ==
    IF encodes(text) THEN encoded_len(text) ELSE text_chars(text) \div 4

\* system_tokens = count_tokens(system_prompt) if system_prompt else 0
system_tokens_of(prompt) == IF prompt # <<>> THEN count_tokens(prompt) ELSE 0

\* the per-interaction count computed in add_interaction
interaction_tokens(user_query, assistant_response) ==
    (count_tokens(user_query) + tokens_per_message)
        + (count_tokens(assistant_response) + tokens_per_message)

\* variant: the deque is created without maxlen
deque_append_unbounded(q, x, maxlen) == Append(q, x)

\* collections.deque(maxlen=n).append(x): a full deque drops its left end
deque_append(q, x, maxlen) ==
    IF maxlen = 0 THEN q
    ELSE IF Len(q) = maxlen THEN Append(Tail(q), x)
    ELSE Append(q, x)

\* variant: the trim uses pop() and drops the newest interaction
RECURSIVE trim_newest_first(_, _, _)
trim_newest_first(c, system_prompt_tokens, limit) ==
    IF Len(c.history) > 0 /\ (c.total + system_prompt_tokens) > limit
    THEN trim_newest_first(
            [history |-> SubSeq(c.history, 1, Len(c.history) - 1),
             counts  |-> IF c.counts # <<>>
                         THEN SubSeq(c.counts, 1, Len(c.counts) - 1)
                         ELSE c.counts,
             total   |-> IF c.counts # <<>>
                         THEN c.total - c.counts[Len(c.counts)]
                         ELSE c.total],
            system_prompt_tokens, limit)
    ELSE c

\* ConversationHistory._trim_to_token_limit on the store c, a record
\* [history, counts, total]
RECURSIVE trim_to_token_limit(_, _, _)
trim_to_token_limit(c, system_prompt_tokens, limit) ==
    IF Len(c.history) > 0 /\ (c.total + system_prompt_tokens) > limit
    THEN trim_to_token_limit(
            [history |-> Tail(c.history),
             counts  |-> IF c.counts # <<>> THEN Tail(c.counts) ELSE c.counts,
             total   |-> IF c.counts # <<>> THEN c.total - Head(c.counts)
                                            ELSE c.total],
            system_prompt_tokens, limit)
    ELSE c

\* the subtraction add_interaction makes before appending to a full deque
subtract_oldest(c, maxlen) ==
    IF Len(c.history) = maxlen /\ c.counts # <<>>
    THEN c.total - Head(c.counts)
    ELSE c.total

\* ConversationHistory.add_interaction up to the call of the trim
append_interaction(c, user_query, assistant_response, maxlen) ==
    LET interaction == [user |-> user_query, assistant |-> assistant_response]
        itok == interaction_tokens(user_query, assistant_response)
    IN  [history |-> deque_append(c.history, interaction, maxlen),
         counts  |-> deque_append(c.counts, itok, maxlen),
         total   |-> subtract_oldest(c, maxlen) + itok]

\* ConversationHistory.add_interaction
add_interaction(c, user_query, assistant_response, overhead, maxlen, limit) ==
    trim_to_token_limit(
        append_interaction(c, user_query, assistant_response, maxlen),
        overhead, limit)

\* variant: the history is flattened newest first
RECURSIVE get_messages_newest_first(_)
get_messages_newest_first(h) ==
    IF h = <<>> THEN <<>>
    ELSE get_messages_newest_first(Tail(h))
         \o <<[role |-> "user", content |-> Head(h).user],
               [role |-> "assistant", content |-> Head(h).assistant]>>

\* ConversationHistory.get_messages_for_llm
RECURSIVE get_messages_for_llm(_)
get_messages_for_llm(h) ==
    IF h = <<>> THEN <<>>
    ELSE <<[role |-> "user", content |-> Head(h).user],
           [role |-> "assistant", content |-> Head(h).assistant]>>
         \o get_messages_for_llm(Tail(h))

\* variant: the system message is added whenever it is requested
get_full_context_unguarded(prompt, h, include_system) ==
    (IF include_system
     THEN <<[role |-> "system", content |-> prompt]>>
     ELSE <<>>) \o get_messages_for_llm(h)

\* ContextManager.get_full_context_for_llm
get_full_context_for_llm(prompt, h, include_system) ==
    (IF include_system /\ prompt # <<>>
     THEN <<[role |-> "system", content |-> prompt]>>
     ELSE <<>>) \o get_messages_for_llm(h)

\* --- message values: a str, a list of items, or anything else
Str(text) == [kind |-> "str", text |-> text, items |-> <<>>]
List(items) == [kind |-> "list", text |-> <<>>, items |-> items]
OtherValue == [kind |-> "other", text |-> <<>>, items |-> <<>>]
\* the items of a list: a dict with 'text', a dict without, a bare str
TextItem(text) == [kind |-> "text_dict", text |-> text]
PlainItem(kind) == [kind |-> kind, text |-> <<>>]

\* the count of one text: self.count_tokens(text) where encode is handled,
\* len(encoding.encode(text)) where it is not
text_tokens(text, handled) ==
    IF handled THEN count_tokens(text) ELSE encoded_len(text)

\* for item in value: if isinstance(item, dict) and 'text' in item
RECURSIVE items_tokens(_, _)
items_tokens(items, handled) ==
    IF items = <<>> THEN 0
    ELSE (IF Head(items).kind = "text_dict"
          THEN text_tokens(Head(items).text, handled) ELSE 0)
         + items_tokens(Tail(items), handled)

\* what one value adds to the total
value_tokens(value, handled) ==
    IF value.kind = "str" THEN text_tokens(value.text, handled)
    ELSE IF value.kind = "list" THEN items_tokens(value.items, handled)
    ELSE 0

\* for key, value in message.items(): over the keys still to visit
RECURSIVE fields_tokens(_, _, _)
fields_tokens(message, keys, handled) ==
    IF keys = {} THEN 0
    ELSE LET key == CHOOSE k \in keys : TRUE IN
         value_tokens(message[key], handled)
           + (IF key = "name" THEN tokens_per_name ELSE 0)
           + fields_tokens(message, keys \ {key}, handled)

\* the loop over the messages and the reply preamble
RECURSIVE messages_tokens(_, _)
messages_tokens(msgs, handled) ==
    IF msgs = <<>> THEN 3
    ELSE (tokens_per_message + fields_tokens(Head(msgs), DOMAIN Head(msgs), handled))
         + messages_tokens(Tail(msgs), handled)

\* the message dicts of get_messages_for_llm as values: role and content
\* are strs
as_values(msgs) ==
    [i \in 1..Len(msgs) |->
        [role |-> Str([j \in 1..role_tokens |-> msgs[i].role]),
         content |-> Str(msgs[i].content)]]

\* ConversationHistory.count_messages_tokens on values
count_values_tokens(msgs) == messages_tokens(msgs, TRUE)

\* ConversationHistory.count_messages_tokens: each message costs
\* tokens_per_message and the tokens of its role and of its content; the
\* reply preamble costs 3 more
count_messages_tokens(msgs) == count_values_tokens(as_values(msgs))

\* whether encoding.encode raises on a text that a value makes the loop count
value_raises(value) ==
    IF value.kind = "str" THEN ~encodes(value.text)
    ELSE IF value.kind = "list"
    THEN \E i \in 1..Len(value.items) :
            value.items[i].kind = "text_dict" /\ ~encodes(value.items[i].text)
    ELSE FALSE

\* CouncilConsultation.num_tokens_from_messages: the same loop over
\* len(encoding.encode(v)), with no handler around encode
num_tokens_from_messages(msgs) ==
    IF \E i \in 1..Len(msgs) : \E k \in DOMAIN msgs[i] : value_raises(msgs[i][k])
    THEN [raised |-> TRUE, total |-> 0]
    ELSE [raised |-> FALSE, total |-> messages_tokens(msgs, FALSE)]

\* ContextManager.get_context_info
get_context_info(prompt, h, context_limit) ==
    LET messages == get_full_context_for_llm(prompt, h, TRUE)
        total == count_messages_tokens(messages)
        system_tokens == system_tokens_of(prompt)
    IN [total_messages |-> Len(messages),
        conversation_interactions |-> Len(h),
        total_tokens |-> total,
        system_prompt_tokens |-> system_tokens,
        conversation_tokens |-> total - system_tokens,
        under_limit |-> total <= context_limit]

\* --- DebugLogger: the files of one session, by (kind, call_number)
NoFiles == [k \in {} |-> [system_prompt |-> <<>>]]

\* open(filepath, 'w') and the writes: the file holds what this call wrote
write_file(files, key, content) ==
    [k \in DOMAIN files \cup {key} |-> IF k = key THEN content ELSE files[k]]

\* whether the write of a log call succeeds; a disabled logger returns
\* before it writes
WriteOutcomes(enabled) == IF enabled THEN BOOLEAN ELSE {TRUE}

\* variant: a failed write reaches the caller of the log call
log_call_propagates(enabled, write_ok) == enabled /\ ~write_ok

\* whether a log_* call raises: its body is inside try/except Exception
log_call_raises(enabled, write_ok) == FALSE

\* DebugLogger.log_system_prompt: system_prompt_{session_id}.txt
log_system_prompt(files, enabled, write_ok, prompt) ==
    IF enabled /\ write_ok
    THEN write_file(files, <<"system_prompt", 0>>, [system_prompt |-> prompt])
    ELSE files

\* DebugLogger.log_api_call: api_call_{session_id}_{call_number:03d}.txt
log_api_call(files, enabled, write_ok, query, response, call_number) ==
    IF enabled /\ write_ok
    THEN write_file(files, <<"api_call", call_number>>,
                    [query |-> query, response |-> response])
    ELSE files

\* DebugLogger.log_tool_calls: tool_calls_{session_id}_{call_number:03d}.json
log_tool_calls(files, enabled, write_ok, tool_calls, call_number) ==
    IF enabled /\ tool_calls # <<>> /\ write_ok
    THEN write_file(files, <<"tool_calls", call_number>>,
                    [tool_calls |-> tool_calls])
    ELSE files

\* DebugLogger.log_context_info: context_info_{session_id}.json
log_context_info(files, enabled, write_ok, context_info) ==
    IF enabled /\ write_ok
    THEN write_file(files, <<"context_info", 0>>, [context_info |-> context_info])
    ELSE files

\* ConversationHistory.is_empty
is_empty(h) == Len(h) = 0

\* variant: clear leaves total_tokens as it is
clear_keep_total(c) == [history |-> <<>>, counts |-> <<>>, total |-> c.total]

\* ConversationHistory.clear
clear(c) == [history |-> <<>>, counts |-> <<>>, total |-> 0]

\* the store held in the variables
conversation ==
    [history |-> history, counts |-> interaction_token_counts,
     total |-> total_tokens]

\* the info of an operation other than get_context_info
NoInfo == [total_messages |-> 0, conversation_interactions |-> 0,
           total_tokens |-> 3, system_prompt_tokens |-> 0,
           conversation_tokens |-> 3, under_limit |-> TRUE]

NoOp == [op |-> "init", user |-> <<>>, assistant |-> <<>>,
         driver_results |-> <<>>, raised |-> FALSE, recorded |-> <<>>,
         before |-> EmptyStore, repeat |-> FALSE, info |-> NoInfo]

Op(name, u, a) == [NoOp EXCEPT !.op = name, !.user = u, !.assistant = a]

\* ------------------------------------------------------------------ Init
\* SmolDAgent.__init__ without a system prompt: a fresh ContextManager
InitStore ==
    /\ max_interactions \in InteractionLimits
    /\ max_tokens \in TokenLimits
    /\ max_context_tokens = max_tokens
    /\ history = <<>>
    /\ interaction_token_counts = <<>>
    /\ total_tokens = 0
    /\ system_prompt = <<>>
    /\ call_counter = 0
    /\ model_id = "gemini/gemini-2.5-flash"
    /\ inserted = <<>>
    /\ over_budget = FALSE
    /\ lastOp = NoOp
    /\ driver_memory = <<>>

\* an agent over a driver that keeps its buffer in an attribute `memory`
Init ==
    /\ InitStore
    /\ ToolsIdle
    /\ driver_buffer_attr = "memory"
    /\ debug_enabled = FALSE
    /\ debug_files = NoFiles

Store(c) ==
    /\ history' = c.history
    /\ interaction_token_counts' = c.counts
    /\ total_tokens' = c.total

Config == <<max_interactions, max_tokens, max_context_tokens>>
Driver == <<driver_memory, driver_buffer_attr>>
Debug == <<debug_enabled, debug_files>>

\* --------------------------------------------------------------- actions
\* ConversationHistory.add_interaction(user_query, assistant_response, n)
HistoryAdd(u, a, n) ==
    /\ Len(inserted) < MaxAdds
    /\ Store(add_interaction(conversation, u, a, n, max_interactions, max_tokens))
    /\ inserted' = Append(inserted, [user |-> u, assistant |-> a])
    /\ over_budget' =
         (over_budget \/
          append_interaction(conversation, u, a, max_interactions).total + n
              > max_tokens)
    /\ lastOp' = Op("add", u, a)
    /\ UNCHANGED <<Tools, Config, Driver, Debug, system_prompt, call_counter, model_id>>

\* ConversationHistory._trim_to_token_limit(n)
HistoryTrim(n) ==
    /\ Store(trim_to_token_limit(conversation, n, max_tokens))
    /\ over_budget' = (over_budget \/ total_tokens + n > max_tokens)
    /\ lastOp' = Op("trim", <<>>, <<>>)
    /\ UNCHANGED <<Tools, Config, Driver, Debug, system_prompt, call_counter, model_id, inserted>>

\* ConversationHistory.clear()
HistoryClear ==
    /\ Store(clear(conversation))
    /\ inserted' = <<>>
    /\ over_budget' = FALSE
    /\ lastOp' = [Op("clear", <<>>, <<>>) EXCEPT !.before = conversation]
    /\ UNCHANGED <<Tools, Config, Driver, Debug, system_prompt, call_counter, model_id>>

\* ContextManager.clear_conversation()
ContextClear ==
    /\ Store(clear(conversation))
    /\ inserted' = <<>>
    /\ over_budget' = FALSE
    /\ lastOp' = [Op("cm_clear", <<>>, <<>>) EXCEPT !.before = conversation]
    /\ UNCHANGED <<Tools, Config, Driver, Debug, system_prompt, call_counter, model_id>>

\* ContextManager.set_system_prompt(prompt)
SetSystemPrompt(prompt) ==
    /\ system_prompt' = prompt
    /\ lastOp' = Op("set_system_prompt", <<>>, <<>>)
    /\ UNCHANGED <<Tools, Config, Driver, Debug, history, interaction_token_counts,
                   total_tokens, call_counter, model_id, inserted, over_budget>>

\* variant: add_interaction leaves system_prompt_tokens at its default 0
cm_overhead_default(prompt) == 0

\* the overhead ContextManager.add_interaction passes to the store
cm_overhead(prompt) == system_tokens_of(prompt)

\* ContextManager.add_interaction(user_query, assistant_response)
ContextAdd(u, a) ==
    /\ Len(inserted) < MaxAdds
    /\ Store(add_interaction(conversation, u, a, cm_overhead(system_prompt),
                             max_interactions, max_tokens))
    /\ inserted' = Append(inserted, [user |-> u, assistant |-> a])
    /\ over_budget' =
         (over_budget \/
          append_interaction(conversation, u, a, max_interactions).total
              + cm_overhead(system_prompt) > max_tokens)
    /\ lastOp' = Op("cm_add", u, a)
    /\ UNCHANGED <<Tools, Config, Driver, Debug, system_prompt, call_counter, model_id>>

\* variant: the refresh rebuilds the store and so discards the history
refresh_store_rebuilt(c, new_system_prompt, context_limit, limit) == EmptyStore

\* variant: the trim is called without the prompt's token count
refresh_store_no_overhead(c, new_system_prompt, context_limit, limit) ==
    IF (c.total + count_tokens(new_system_prompt)) > context_limit
    THEN trim_to_token_limit(c, 0, limit)
    ELSE c

\* variant: every refresh drops the oldest interaction
refresh_store_drop_oldest(c, new_system_prompt, context_limit, limit) ==
    IF c.history # <<>>
    THEN [history |-> Tail(c.history), counts |-> Tail(c.counts),
          total |-> c.total - Head(c.counts)]
    ELSE c

\* ContextManager.refresh_with_system_prompt: the store after the refresh
refresh_store(c, new_system_prompt, context_limit, limit) ==
    IF (c.total + count_tokens(new_system_prompt)) > context_limit
    THEN trim_to_token_limit(c, count_tokens(new_system_prompt), limit)
    ELSE c

\* the operations that end in refresh_with_system_prompt
RefreshOps == {"refresh", "refresh_context"}

\* the log entry of a refresh: the store it found, and whether it repeats
\* the prompt of a refresh made immediately before
RefreshOp(name, new_system_prompt) ==
    [Op(name, <<>>, <<>>) EXCEPT
        !.before = conversation,
        !.repeat = (lastOp.op \in RefreshOps /\ system_prompt = new_system_prompt)]

\* ContextManager.refresh_with_system_prompt(new_system_prompt)
Refresh(new_system_prompt) ==
    /\ system_prompt' = new_system_prompt
    /\ Store(refresh_store(conversation, new_system_prompt,
                           max_context_tokens, max_tokens))
    /\ over_budget' =
         (over_budget \/
          total_tokens + count_tokens(new_system_prompt) > max_context_tokens)
    /\ lastOp' = RefreshOp("refresh", new_system_prompt)
    /\ UNCHANGED <<Tools, Config, Driver, Debug, call_counter, model_id, inserted>>

\* refresh_agent_context(agent, new_cwd): the prompt is regenerated and given
\* to agent.context_manager.refresh_with_system_prompt; the agent is returned
RefreshAgentContext(new_cwd) ==
    /\ system_prompt' = get_system_prompt(new_cwd)
    /\ Store(refresh_store(conversation, get_system_prompt(new_cwd),
                           max_context_tokens, max_tokens))
    /\ over_budget' =
         (over_budget \/
          total_tokens + count_tokens(get_system_prompt(new_cwd))
              > max_context_tokens)
    /\ lastOp' = RefreshOp("refresh_context", get_system_prompt(new_cwd))
    /\ \E write_ok \in WriteOutcomes(debug_enabled) :
          debug_files' = log_system_prompt(debug_files, debug_enabled, write_ok,
                                           get_system_prompt(new_cwd))
    /\ UNCHANGED <<Tools, Config, Driver, debug_enabled, call_counter, model_id,
                   inserted>>

\* variant: no except branch, the first failure leaves run
run_outcome_no_fallback(query, first, second) ==
    IF first.ok
    THEN [driver_results |-> <<first>>, raised |-> FALSE,
          response |-> first.text,
          recorded |-> <<[user |-> query, assistant |-> first.text]>>]
    ELSE [driver_results |-> <<first>>, raised |-> TRUE,
          response |-> <<>>, recorded |-> <<>>]

\* variant: the except branch ends with a bare raise
run_outcome_reraise(query, first, second) ==
    IF first.ok
    THEN [driver_results |-> <<first>>, raised |-> FALSE,
          response |-> first.text,
          recorded |-> <<[user |-> query, assistant |-> first.text]>>]
    ELSE IF second.ok
    THEN [driver_results |-> <<first, second>>, raised |-> TRUE,
          response |-> <<>>,
          recorded |-> <<[user |-> query, assistant |-> second.text]>>]
    ELSE [driver_results |-> <<first, second>>, raised |-> TRUE,
          response |-> <<>>, recorded |-> <<>>]

\* variant: the except branch returns without add_interaction
run_outcome_fallback_unrecorded(query, first, second) ==
    IF first.ok
    THEN [driver_results |-> <<first>>, raised |-> FALSE,
          response |-> first.text,
          recorded |-> <<[user |-> query, assistant |-> first.text]>>]
    ELSE IF second.ok
    THEN [driver_results |-> <<first, second>>, raised |-> FALSE,
          response |-> second.text, recorded |-> <<>>]
    ELSE [driver_results |-> <<first, second>>, raised |-> TRUE,
          response |-> <<>>, recorded |-> <<>>]

\* SmolDAgent.run: the driver calls made, whether run raised, the response
\* returned and the interactions given to context_manager.add_interaction
run_outcome(query, first, second) ==
    IF first.ok
    THEN [driver_results |-> <<first>>, raised |-> FALSE,
          response |-> first.text,
          recorded |-> <<[user |-> query, assistant |-> first.text]>>]
    ELSE IF second.ok
    THEN [driver_results |-> <<first, second>>, raised |-> FALSE,
          response |-> second.text,
          recorded |-> <<[user |-> query, assistant |-> second.text]>>]
    ELSE [driver_results |-> <<first, second>>, raised |-> TRUE,
          response |-> <<>>, recorded |-> <<>>]

\* base_agent.run(query, reset=False): the driver's buffer after its calls;
\* a call that returns adds the exchange, a call that raises adds nothing
RECURSIVE driver_after(_, _, _)
driver_after(memory, query, results) ==
    IF results = <<>> THEN memory
    ELSE driver_after(
            IF Head(results).ok
            THEN Append(memory, [user |-> query, assistant |-> Head(results).text])
            ELSE memory,
            query, Tail(results))

\* the store after context_manager.add_interaction of each recorded pair
RECURSIVE record_all(_, _, _, _, _)
record_all(c, recorded, prompt, maxlen, limit) ==
    IF recorded = <<>> THEN c
    ELSE record_all(
            add_interaction(c, Head(recorded).user, Head(recorded).assistant,
                            cm_overhead(prompt), maxlen, limit),
            Tail(recorded), prompt, maxlen, limit)

\* SmolDAgent.run with its log calls: a log call that raised after the
\* driver returned would send run into its except branch
run_logged(query, first, second, logs_raise) ==
    IF first.ok /\ logs_raise
    THEN [driver_results |-> <<first, second>>,
          raised |-> ~second.ok \/ logs_raise,
          response |-> IF second.ok THEN second.text ELSE <<>>,
          recorded |-> IF second.ok
                       THEN <<[user |-> query, assistant |-> second.text]>>
                       ELSE <<>>]
    ELSE run_outcome(query, first, second)

\* the files after the log calls of a run numbered call_number
run_files(files, enabled, api_ok, tools_ok, query, r, tool_calls, call_number) ==
    IF r.raised THEN files
    ELSE LET logged == log_api_call(files, enabled, api_ok, query, r.response,
                                    call_number)
         IN IF Len(r.driver_results) = 1
            THEN log_tool_calls(logged, enabled, tools_ok, tool_calls,
                                call_number)
            ELSE logged

\* variant: the counter advances with every driver call
counter_per_driver_call(counter, r) == counter + Len(r.driver_results)

\* self.call_counter += 1, the first statement of run
counter_after(counter, r) == counter + 1

\* SmolDAgent.run(query)
Run(query, first, second) ==
    \E api_ok \in WriteOutcomes(debug_enabled),
       tools_ok \in WriteOutcomes(debug_enabled) :
    LET logs_raise ==
            \/ log_call_raises(debug_enabled, api_ok)
            \/ (driver_tool_calls # <<>>
                  /\ log_call_raises(debug_enabled, tools_ok))
        r == run_logged(query, first, second, logs_raise)
    IN
    /\ call_counter < MaxCalls
    /\ Len(inserted) < MaxAdds
    /\ call_counter' = counter_after(call_counter, r)
    /\ Store(record_all(conversation, r.recorded, system_prompt,
                        max_interactions, max_tokens))
    /\ inserted' = inserted \o r.recorded
    /\ over_budget' =
         (over_budget \/
          (r.recorded # <<>> /\
           append_interaction(conversation, query, r.response,
                              max_interactions).total
               + cm_overhead(system_prompt) > max_tokens))
    /\ lastOp' = [NoOp EXCEPT !.op = "run", !.user = query,
                              !.assistant = r.response,
                              !.driver_results = r.driver_results,
                              !.raised = r.raised, !.recorded = r.recorded,
                              !.before = conversation]
    /\ driver_memory' = driver_after(driver_memory, query, r.driver_results)
    /\ debug_files' = run_files(debug_files, debug_enabled, api_ok, tools_ok,
                                query, r, driver_tool_calls,
                                counter_after(call_counter, r))
    /\ UNCHANGED <<Tools, Config, system_prompt, model_id, driver_buffer_attr,
                   debug_enabled>>

\* what clear_conversation leaves of the driver's buffer: it assigns [] to
\* history, chat_history and messages, each only if base_agent has it
reset_driver(memory, attr) == IF attr \in ProbedAttrs THEN <<>> ELSE memory

\* SmolDAgent.clear_conversation()
AgentClear ==
    /\ Store(clear(conversation))
    /\ driver_memory' = reset_driver(driver_memory, driver_buffer_attr)
    /\ inserted' = <<>>
    /\ over_budget' = FALSE
    /\ lastOp' = [Op("agent_clear", <<>>, <<>>) EXCEPT !.before = conversation]
    /\ UNCHANGED <<Tools, Config, Debug, system_prompt, call_counter, model_id,
                   driver_buffer_attr>>

\* SmolDAgent.get_context_info(): the info is computed, logged and returned
GetContextInfo ==
    \E write_ok \in WriteOutcomes(debug_enabled) :
    LET context_info == get_context_info(system_prompt, history,
                                         max_context_tokens) IN
    /\ debug_files' = log_context_info(debug_files, debug_enabled, write_ok,
                                       context_info)
    /\ lastOp' = [Op("context_info", <<>>, <<>>) EXCEPT
                     !.info = context_info,
                     !.before = conversation,
                     !.raised = log_call_raises(debug_enabled, write_ok)]
    /\ UNCHANGED <<Tools, Config, Driver, history, interaction_token_counts,
                   total_tokens, system_prompt, call_counter, model_id,
                   debug_enabled, inserted, over_budget>>

\* the 'pro' command of run_interactive_mode: agent = create_agent(cwd,
\* debug_mode, use_pro = not current_is_pro), a new SmolDAgent with a new
\* ContextManager and, when logging, a new DebugLogger with its own session
SwitchModel(cwd) ==
    /\ Len(completion_patches) < MaxPatches
    /\ completion_patches' = Append(completion_patches, get_system_prompt(cwd))
    /\ model_id' = IF model_id = "gemini/gemini-2.5-pro"
                   THEN "gemini/gemini-2.5-flash"
                   ELSE "gemini/gemini-2.5-pro"
    /\ history' = <<>>
    /\ interaction_token_counts' = <<>>
    /\ total_tokens' = 0
    /\ system_prompt' = get_system_prompt(cwd)
    /\ call_counter' = 0
    /\ inserted' = <<>>
    /\ over_budget' = FALSE
    /\ lastOp' = Op("switch_model", <<>>, <<>>)
    /\ driver_memory' = <<>>
    /\ \E write_ok \in WriteOutcomes(debug_enabled) :
          debug_files' = log_system_prompt(IF debug_enabled THEN NoFiles
                                           ELSE debug_files,
                                          debug_enabled, write_ok,
                                          get_system_prompt(cwd))
    /\ UNCHANGED <<TokenVars, CdVars, ShellVars, last_request, Config,
                   driver_buffer_attr, debug_enabled>>

Next ==
    \/ \E u \in Texts, a \in Texts, n \in Overheads : HistoryAdd(u, a, n)
    \/ \E n \in Overheads : HistoryTrim(n)
    \/ HistoryClear
    \/ ContextClear
    \/ \E p \in Prompts : SetSystemPrompt(p)
    \/ \E u \in Texts, a \in Texts : ContextAdd(u, a)
    \/ \E p \in Prompts : Refresh(p)
    \/ \E cwd \in Dirs : RefreshAgentContext(cwd)

Spec == Init /\ [][Next]_vars

\* the stores that keep at least one interaction
InitPositive == Init /\ max_interactions > 0
SpecPositive == InitPositive /\ [][Next]_vars

\* the session as the interactive loop drives it: queries, clear, context,
\* cd and pro, over any driver and without --debug
InitAgent ==
    /\ InitStore
    /\ ToolsIdle
    /\ max_interactions > 0
    /\ driver_buffer_attr \in DriverBufferAttrs
    /\ debug_enabled = FALSE
    /\ debug_files = NoFiles

NextAgent ==
    \/ \E q \in Texts, first \in DriverOutcomes, second \in DriverOutcomes :
          Run(q, first, second)
    \/ AgentClear
    \/ GetContextInfo
    \/ \E cwd \in Dirs : RefreshAgentContext(cwd)
    \/ \E cwd \in Dirs : SwitchModel(cwd)

SpecAgent == InitAgent /\ [][NextAgent]_vars

\* the session after create_agent(cwd, debug): the prompt of cwd is set and,
\* if the logger is enabled, logged
InitDebug ==
    /\ ToolsIdle
    /\ max_interactions = MaxInteractionsBound
    /\ max_tokens = MaxTokensBound
    /\ max_context_tokens = max_tokens
    /\ history = <<>>
    /\ interaction_token_counts = <<>>
    /\ total_tokens = 0
    /\ \E cwd \in Dirs : system_prompt = get_system_prompt(cwd)
    /\ call_counter = 0
    /\ model_id = "gemini/gemini-2.5-flash"
    /\ inserted = <<>>
    /\ over_budget = FALSE
    /\ lastOp = NoOp
    /\ driver_memory = <<>>
    /\ driver_buffer_attr = "memory"
    /\ debug_enabled \in BOOLEAN
    /\ \E write_ok \in WriteOutcomes(debug_enabled) :
          debug_files = log_system_prompt(NoFiles, debug_enabled, write_ok,
                                          system_prompt)

\* the operations of one agent
NextDebug ==
    \/ \E q \in Texts, first \in DriverOutcomes, second \in DriverOutcomes :
          Run(q, first, second)
    \/ AgentClear
    \/ GetContextInfo
    \/ \E cwd \in Dirs : RefreshAgentContext(cwd)

SpecDebug == InitDebug /\ [][NextDebug]_vars

\* ------------------------------------------------------- claims C1 .. C6
\* the sum of the per-interaction counts of the retained interactions
RECURSIVE retained_tokens(_)
retained_tokens(h) ==
    IF h = <<>> THEN 0
    ELSE interaction_tokens(Head(h).user, Head(h).assistant)
         + retained_tokens(Tail(h))

\* C1: in every reachable state total_tokens equals the sum of the
\* per-interaction token counts of exactly the retained interactions.
C1_TotalEqualsRetained == total_tokens = retained_tokens(history)

\* the operations after which the context budget is to hold
BudgetOps == {"cm_add", "run"} \cup RefreshOps
Fits == system_tokens_of(system_prompt) + total_tokens <= max_context_tokens

C3_NewestRetained ==
    lastOp.op = "add" =>
        /\ history # <<>>
        /\ history[Len(history)] =
             [user |-> lastOp.user, assistant |-> lastOp.assistant]

\* C4: the retained history is a contiguous suffix, in insertion order, of
\* the interactions inserted since construction or the last clear.
C4_RetainedIsSuffix ==
    \E k \in 0..Len(inserted) :
        history = SubSeq(inserted, k + 1, Len(inserted))

\* an older interaction was evicted while two different newer ones remain
C4_Witness ==
    /\ Len(inserted) = 3
    /\ Len(history) = 2
    /\ history[1] # history[2]
    /\ inserted[1] # history[1]

\* C5: the history never holds more than max_interactions interactions.
C5_BoundedSize == Len(history) <= max_interactions

\* more interactions were inserted than the store keeps, and it is full
C5_Witness ==
    /\ max_interactions > 0
    /\ Len(inserted) > max_interactions
    /\ Len(history) = max_interactions

\* C6: while the token budget has not been binding, the history holds
\* exactly the last min(n, max_interactions) of the n inserted interactions,
\* get_messages_for_llm returns twice that many messages, and total_tokens
\* counts the retained interactions only.
C6_CapacityOnly ==
    ~over_budget =>
        LET n == Len(inserted)
            m == Min(n, max_interactions)
        IN  /\ history = SubSeq(inserted, n - m + 1, n)
            /\ Len(get_messages_for_llm(history)) = 2 * m
            /\ total_tokens = retained_tokens(history)

\* the same for stores that keep at least one interaction
C6_CapacityOnlyPositive == max_interactions > 0 => C6_CapacityOnly
C1_TotalEqualsRetainedPositive == max_interactions > 0 => C1_TotalEqualsRetained

\* ------------------------------------------------------ claims C7 .. C10
\* C7: a model switch leaves the agent in use with the same retained
\* interactions and the same conversation token total as before.
C7_HistoryPersists ==
    [][(\E cwd \in Dirs : SwitchModel(cwd)) =>
          (history' = history /\ total_tokens' = total_tokens)]_vars

\* C8: the driver is called once when its first call succeeds and twice when
\* it fails, never more; run raises exactly when the fallback call fails as
\* well, and then nothing is recorded.
C8_OneFallback ==
    lastOp.op = "run" =>
        /\ Len(lastOp.driver_results) =
             (IF lastOp.driver_results[1].ok THEN 1 ELSE 2)
        /\ lastOp.raised <=>
             (\A i \in 1..Len(lastOp.driver_results) :
                  ~lastOp.driver_results[i].ok)
        /\ lastOp.raised => lastOp.recorded = <<>>

\* the first driver call failed and the fallback call returned
C8_Witness ==
    /\ lastOp.op = "run"
    /\ Len(lastOp.driver_results) = 2
    /\ ~lastOp.raised

\* C9 (as stated): run never raises to its caller.
C9_NeverRaises == lastOp.op = "run" => ~lastOp.raised

\* C9 (amended): run raises to its caller only when the fallback call fails
\* too; a failure of the first call alone degrades to the returned response
\* of the fallback call.
C9_RaisesOnlyAfterFallback ==
    lastOp.op = "run" =>
        /\ lastOp.raised =>
             /\ Len(lastOp.driver_results) = 2
             /\ ~lastOp.driver_results[2].ok
        /\ (Len(lastOp.driver_results) = 2 /\ lastOp.driver_results[2].ok) =>
             /\ ~lastOp.raised
             /\ lastOp.assistant = lastOp.driver_results[2].text

\* both driver calls failed and run raised
C9_Witness ==
    /\ lastOp.op = "run"
    /\ lastOp.raised
    /\ call_counter > 0

\* C10: a run that returns r records exactly one interaction (query, r), on
\* the success and the fallback path alike, r being what the driver
\* returned; a run that raises records none.
C10_OneRecordPerReturn ==
    lastOp.op = "run" =>
        /\ ~lastOp.raised =>
             /\ lastOp.recorded =
                  <<[user |-> lastOp.user, assistant |-> lastOp.assistant]>>
             /\ lastOp.assistant =
                  lastOp.driver_results[Len(lastOp.driver_results)].text
        /\ Len(lastOp.recorded) = (IF lastOp.raised THEN 0 ELSE 1)

\* the fallback's response was recorded and is the newest retained one
C10_Witness ==
    /\ lastOp.op = "run"
    /\ ~lastOp.driver_results[1].ok
    /\ lastOp.recorded # <<>>
    /\ history # <<>>
    /\ history[Len(history)] = lastOp.recorded[1]

\* ----------------------------------------------------- claims C11 .. C20
IsSuffix(h, h0) == \E k \in 0..Len(h0) : h = SubSeq(h0, k + 1, Len(h0))

\* C11: refresh_agent_context returns the same agent, leaves a suffix of the
\* retained interactions, leaves them unchanged when the new prompt still
\* fits with them, and stores the newly generated prompt.
C11_RefreshKeepsHistory ==
    [][\A cwd \in Dirs : RefreshAgentContext(cwd) =>
          /\ IsSuffix(history', history)
          /\ (count_tokens(get_system_prompt(cwd)) + total_tokens
                  <= max_context_tokens)
                => /\ history' = history
                   /\ interaction_token_counts' = interaction_token_counts
                   /\ total_tokens' = total_tokens
          /\ system_prompt' = get_system_prompt(cwd)
          /\ call_counter' = call_counter
          /\ model_id' = model_id]_vars

\* a directory change whose larger prompt evicted some, not all, interactions
C11_Witness ==
    /\ lastOp.op = "refresh_context"
    /\ history # <<>>
    /\ Len(history) < Len(lastOp.before.history)

\* C12: a refresh evicts exactly the shortest prefix of oldest interactions
\* after which the new prompt and the rest fit (all of them if none does),
\* and nothing when they fit already.
C12_MinimalEviction ==
    lastOp.op \in RefreshOps =>
        LET h0 == lastOp.before.history
            n == Len(h0)
            FitsFrom(k) ==
                count_tokens(system_prompt)
                    + retained_tokens(SubSeq(h0, k + 1, n))
                    <= max_context_tokens
            k0 == CHOOSE k \in 0..n :
                    /\ k = n \/ FitsFrom(k)
                    /\ \A j \in 0..(k - 1) : ~FitsFrom(j)
        IN  /\ history = SubSeq(h0, k0 + 1, n)
            /\ total_tokens
                 = lastOp.before.total - retained_tokens(SubSeq(h0, 1, k0))

\* a refresh that had to evict all the retained interactions but the newest
C12_Witness ==
    /\ lastOp.op = "refresh"
    /\ Len(lastOp.before.history) = 2
    /\ Len(history) = 1
    /\ Fits

\* C13: a refresh repeating the prompt of the refresh just made leaves the
\* history, the token counts and total_tokens as the first one left them.
C13_RefreshIdempotent ==
    (lastOp.op \in RefreshOps /\ lastOp.repeat) => conversation = lastOp.before

\* the prompt was refreshed twice in a row over a history trimmed earlier
C13_Witness ==
    /\ lastOp.op = "refresh"
    /\ lastOp.repeat
    /\ system_prompt # <<>>
    /\ history # <<>>
    /\ Len(history) < Len(inserted)

\* C14: clear() leaves the store as a newly created one: no messages for
\* the model, total_tokens 0, is_empty true; so a second clear changes
\* nothing and later insertions start from the state of a new history.
C14_ClearResets ==
    lastOp.op = "clear" =>
        /\ get_messages_for_llm(history) = <<>>
        /\ total_tokens = 0
        /\ is_empty(history)
        /\ conversation = EmptyStore

\* a history holding interactions was cleared
C14_Witness ==
    /\ lastOp.op = "clear"
    /\ lastOp.before.history # <<>>
    /\ lastOp.before.total > 0

\* C15: clear_conversation empties the history, keeps system_prompt and
\* max_context_tokens, and the full context is then the system message
\* alone, or nothing when no prompt is set.
C15_ClearKeepsPrompt ==
    [][ContextClear =>
          /\ history' = <<>>
          /\ system_prompt' = system_prompt
          /\ max_context_tokens' = max_context_tokens
          /\ get_full_context_for_llm(system_prompt', history', TRUE) =
               (IF system_prompt # <<>>
                THEN <<[role |-> "system", content |-> system_prompt]>>
                ELSE <<>>)]_vars

\* a conversation under a system prompt was cleared
C15_Witness ==
    /\ lastOp.op = "cm_clear"
    /\ system_prompt # <<>>
    /\ lastOp.before.history # <<>>

\* C16: the full context is the system message, present exactly when it is
\* requested and the prompt is not empty, followed by the retained
\* interactions oldest first as user and assistant messages in turn.
C16_FullContextShape ==
    \A include_system \in BOOLEAN :
        LET m == get_full_context_for_llm(system_prompt, history, include_system)
            off == IF include_system /\ system_prompt # <<>> THEN 1 ELSE 0
        IN  /\ Len(m) = 2 * Len(history) + off
            /\ off = 1 => m[1] = [role |-> "system", content |-> system_prompt]
            /\ \A i \in 1..Len(history) :
                 /\ m[off + 2 * i - 1] =
                      [role |-> "user", content |-> history[i].user]
                 /\ m[off + 2 * i] =
                      [role |-> "assistant", content |-> history[i].assistant]

\* a prompt and two different retained interactions
C16_Witness ==
    /\ system_prompt # <<>>
    /\ Len(history) = 2
    /\ history[1] # history[2]

\* C17: after SmolDAgent.clear_conversation the history is empty with
\* total_tokens 0 and the driver's own buffer is empty as well.
C17_ClearResetsDriver ==
    lastOp.op = "agent_clear" =>
        /\ conversation = EmptyStore
        /\ driver_memory = <<>>

\* C18: the past exchanges the driver sends on the next run are exactly the
\* interactions the Context Manager retains.
C18_DriverMatchesHistory == driver_memory = history

\* C19: whatever the logger's state and the fate of its writes, run and
\* get_context_info return what they return without a logger, leave the
\* Context Manager as they leave it without one, and no log call raises.
C19_LoggerUnobserved ==
    /\ lastOp.op = "run" =>
          LET calls == lastOp.driver_results
              r == run_outcome(lastOp.user, calls[1], calls[Len(calls)])
          IN /\ lastOp.raised = r.raised
             /\ lastOp.assistant = r.response
             /\ calls = r.driver_results
             /\ conversation =
                  record_all(lastOp.before, r.recorded, system_prompt,
                             max_interactions, max_tokens)
    /\ lastOp.op = "context_info" =>
          /\ ~lastOp.raised
          /\ lastOp.info = get_context_info(system_prompt, history,
                                            max_context_tokens)
          /\ conversation = lastOp.before

\* a run returned and was recorded although its log write failed
C19_Witness ==
    /\ debug_enabled
    /\ lastOp.op = "run"
    /\ ~lastOp.raised
    /\ history # <<>>
    /\ <<"api_call", call_counter>> \notin DOMAIN debug_files

\* C20: within a session a record once written is neither overwritten nor
\* removed by a later log call.
C20_AppendOnly ==
    [][lastOp'.op # "switch_model" =>
          \A k \in DOMAIN debug_files :
              /\ k \in DOMAIN debug_files'
              /\ debug_files'[k] = debug_files[k]]_vars

\* ------------------------------------------------ the message counters
\* the texts of message fields: empty, words, and one the tokenizer refuses
FieldTexts == Texts \cup {<<SpecialToken>>}

FieldValues ==
    {Str(t) : t \in FieldTexts}
      \cup {List(<<TextItem([i \in 1..MaxTextLen |-> "w"]), PlainItem("dict")>>),
            List(<<PlainItem("str")>>), OtherValue}

\* a message has a role and a content, and may have a name
MessageDicts ==
    {[role |-> Str(<<"user">>), content |-> c] : c \in FieldValues}
      \cup {[role |-> Str(<<"user">>), content |-> c, name |-> Str(<<"w">>)] :
               c \in FieldValues}

RECURSIVE MessageLists(_)
MessageLists(n) ==
    IF n = 0 THEN {<<>>}
    ELSE MessageLists(n - 1)
           \cup {Append(l, m) : l \in MessageLists(n - 1), m \in MessageDicts}

\* an agent that is not used while the tools are
AgentIdle ==
    /\ InitStore
    /\ max_interactions = MaxInteractionsBound
    /\ max_tokens = MaxTokensBound
    /\ driver_buffer_attr = "memory"
    /\ debug_enabled = FALSE
    /\ debug_files = NoFiles

\* both counters are given the same message list
CountMessages(msgs) ==
    /\ message_list' = msgs
    /\ token_totals' = [history |-> count_values_tokens(msgs),
                        council |-> num_tokens_from_messages(msgs)]
    /\ UNCHANGED <<agentvars, CdVars, ShellVars, LlmVars>>

InitTokens == AgentIdle /\ ToolsIdle
NextTokens == \E msgs \in MessageLists(MaxMessages) : CountMessages(msgs)
SpecTokens == InitTokens /\ [][NextTokens]_vars

\* ---------------------------------------------------- ChangeDirectoryTool
\* the file system: what os.path.exists, os.path.isdir, the restricted list
\* and os.chdir make of an absolute path
Home == "/home/u"
fs_kind(path) ==
    IF path \in {"/w", "/w/src", Home} THEN "dir"
    ELSE IF path = "/usr/bin" THEN "restricted"
    ELSE IF path = "/w/locked" THEN "denied"
    ELSE IF path = "/w/notes.txt" THEN "file"
    ELSE "missing"

\* the path arguments: absolute paths, which abspath leaves as they are, and
\* the special paths
CdPaths ==
    {"/w", "/w/src", Home, "/usr/bin", "/w/locked", "/w/notes.txt", "/w/nope",
     "-", "~"}

\* where the process may have been started
StartDirs == {"/w", "/usr/bin"}

\* the special paths of forward; abspath("-") names an entry "-" of the
\* working directory, which does not exist
target_of(path, previous) ==
    IF path = "-" /\ previous # None THEN previous
    ELSE IF path = "~" THEN Home
    ELSE path

\* variant: a successful change leaves previous_directory as it was
cd_outcome_forgetful(path, current_dir, previous) ==
    LET target_path == target_of(path, previous) IN
    IF fs_kind(target_path) = "dir"
    THEN [result |-> <<"Directory changed successfully!", target_path>>,
          cwd |-> target_path, previous |-> previous]
    ELSE [result |-> <<"Error", fs_kind(target_path)>>, cwd |-> current_dir,
          previous |-> previous]

\* variant: previous_directory is assigned before os.chdir is attempted
cd_outcome_eager(path, current_dir, previous) ==
    LET target_path == target_of(path, previous)
        kind == fs_kind(target_path)
    IN IF kind = "dir"
       THEN [result |-> <<"Directory changed successfully!", target_path>>,
             cwd |-> target_path, previous |-> current_dir]
       ELSE [result |-> <<"Error", kind>>, cwd |-> current_dir,
             previous |-> IF kind = "denied" THEN current_dir ELSE previous]

\* ChangeDirectoryTool.forward: the string returned, the working directory
\* and previous_directory afterwards
cd_outcome(path, current_dir, previous) ==
    LET target_path == target_of(path, previous)
        kind == fs_kind(target_path)
    IN IF kind = "missing"
       THEN [result |-> <<"Error", "does not exist">>, cwd |-> current_dir,
             previous |-> previous]
       ELSE IF kind = "file"
       THEN [result |-> <<"Error", "exists but is not a directory">>,
             cwd |-> current_dir, previous |-> previous]
       ELSE IF kind = "restricted"
       THEN [result |-> <<"Error", "restricted system directory">>,
             cwd |-> current_dir, previous |-> previous]
       ELSE IF kind = "denied"
       THEN [result |-> <<"Error", "Permission denied">>, cwd |-> current_dir,
             previous |-> previous]
       ELSE [result |-> <<"Directory changed successfully!", target_path>>,
             cwd |-> target_path, previous |-> current_dir]

\* cd_tool.forward(path)
Forward(path) ==
    LET out == cd_outcome(path, working_directory, previous_directory) IN
    /\ working_directory' = out.cwd
    /\ previous_directory' = out.previous
    /\ cd_last' = [path |-> path, result |-> out.result,
                   cwd_before |-> working_directory,
                   previous_before |-> previous_directory,
                   changed_from |-> IF out.result[1] = "Error"
                                    THEN cd_last.changed_from
                                    ELSE working_directory]
    /\ UNCHANGED <<agentvars, TokenVars, ShellVars, LlmVars>>

InitCd ==
    /\ AgentIdle
    /\ TokensIdle
    /\ ShellIdle
    /\ LlmIdle
    /\ working_directory \in StartDirs
    /\ previous_directory = None
    /\ cd_last = NoCd

NextCd == \E path \in CdPaths : Forward(path)
SpecCd == InitCd /\ [][NextCd]_vars

\* ---------------------------------------------------------------------------
\* BashTool and PowerShellTool (tools/bash_tool.py, tools/powershell_tool.py)
\* ---------------------------------------------------------------------------

\* a command string is a sequence of pieces: a banned name, another word, a
\* blank, a single quote, a semicolon, a path separator
BannedName == "curl"
Word == "x"
Blank == " "
Quote == "'"
Semicolon == ";"
Slash == "/"
Pieces == {BannedName, Word, Blank, Quote, Semicolon, Slash}
WordPieces == {BannedName, Word}

RECURSIVE CommandsOfLen(_)
CommandsOfLen(n) ==
    IF n = 0 THEN {<<>>}
    ELSE {Append(c, p) : c \in CommandsOfLen(n - 1), p \in Pieces}

Commands == UNION {CommandsOfLen(n) : n \in 1..MaxCommandLen}

DEFAULT_TIMEOUT == 1800000
MAX_TIMEOUT == 600000

\* Optional[int] timeout in milliseconds: not given, negative, one second
Timeouts == {<<>>, <<0 - 1>>, <<1000>>}

\* timeout_ms / 1000, rounded down to whole seconds
timeout_sec(timeout) ==
    LET timeout_ms == IF timeout = <<>> THEN DEFAULT_TIMEOUT
                      ELSE IF timeout[1] < MAX_TIMEOUT THEN timeout[1] ELSE MAX_TIMEOUT
    IN timeout_ms \div 1000

\* shlex.split(command): blanks separate tokens, a quote opens or closes a
\* quoted stretch that belongs to the token, every other piece (the semicolon
\* and the path separator included) is part of the token; an open quote at the
\* end raises ValueError
RECURSIVE shlex_scan(_, _, _, _, _, _)
shlex_scan(command, i, tokens, token, in_token, quoted) ==
    IF i > Len(command)
    THEN [raised |-> quoted,
          tokens |-> IF in_token THEN Append(tokens, token) ELSE tokens]
    ELSE LET c == command[i] IN
         IF c = Quote
         THEN shlex_scan(command, i + 1, tokens, token, TRUE, ~quoted)
         ELSE IF c = Blank /\ ~quoted
         THEN IF in_token
              THEN shlex_scan(command, i + 1, Append(tokens, token), <<>>, FALSE, FALSE)
              ELSE shlex_scan(command, i + 1, tokens, token, FALSE, FALSE)
         ELSE shlex_scan(command, i + 1, tokens, Append(token, c), TRUE, quoted)

shlex_split(command) == shlex_scan(command, 1, <<>>, <<>>, FALSE, FALSE)

\* os.path.basename(token): what follows the last path separator
basename(token) ==
    LET seps == {i \in 1..Len(token) : token[i] = Slash}
        last == IF seps = {} THEN 0 ELSE CHOOSE i \in seps : \A j \in seps : j <= i
    IN SubSeq(token, last + 1, Len(token))

\* BashTool._is_banned_command: raised = shlex.split raised
is_banned_command(command) ==
    LET split == shlex_split(command) IN
    [raised |-> split.raised,
     banned |-> /\ ~split.raised
                /\ \E i \in 1..Len(split.tokens) :
                       \/ split.tokens[i] = <<BannedName>>
                       \/ basename(split.tokens[i]) = <<BannedName>>]

\* PowerShellTool._is_banned_command: the banned name between word boundaries
ps_is_banned_command(command) ==
    \E i \in 1..Len(command) :
        /\ command[i] = BannedName
        /\ i > 1 => command[i - 1] \notin WordPieces
        /\ i < Len(command) => command[i + 1] \notin WordPieces

BannedError == "Error: Command contains one or more banned commands"
TimedOut == "Command timed out"
ExecuteError == "Error executing command"
Output == "output"

\* what the shell prints for the command of call id: its lines, then the
\* marker of the echo appended to it
Line(id) == [owner |-> id, marker |-> FALSE]
Marker(id) == [owner |-> id, marker |-> TRUE]
output_of(id, produced) == [i \in 1..produced |-> Line(id)] \o <<Marker(id)>>

\* position of the first line holding the output marker
first_marker(stream) ==
    CHOOSE i \in 1..Len(stream) :
        stream[i].marker /\ \A j \in 1..(i - 1) : ~stream[j].marker

\* BashTool._execute_command_with_timeout after the write: the read loop over
\* the lines the shell has printed or will print. It ends at the first line
\* holding the marker, or at a timeout check that finds the time exceeded
\* after consumed lines were read; the SIGINT of _kill_current_command leaves
\* the shell running the rest of its input, or ends it, or cannot be sent
\* and the shell is started again.
read_outcomes(stream, timeout) ==
    LET m == first_marker(stream)
        owners(n) == [i \in 1..n |-> stream[i].owner]
        after(n) == SubSeq(stream, n + 1, Len(stream))
        completes ==
            IF timeout_sec(timeout) < 0 THEN {}
            ELSE {[result |-> Output, lines |-> owners(m - 1),
                   marker |-> stream[m].owner, rest |-> after(m), alive |-> TRUE]}
        reads == IF timeout_sec(timeout) < 0 THEN {0} ELSE 0..(m - 1)
        times_out ==
            {[result |-> TimedOut, lines |-> <<>>, marker |-> 0,
              rest |-> IF kill = "interrupted" THEN after(consumed) ELSE <<>>,
              alive |-> kill # "ended"] :
                 consumed \in reads, kill \in {"interrupted", "ended", "restarted"}}
    IN completes \cup times_out

\* BashTool.forward
BashForward(command, timeout) ==
    /\ bash_calls < MaxCommands
    /\ bash_calls' = bash_calls + 1
    /\ LET id == bash_calls + 1
           started == ~shell_alive
           pending == IF started THEN <<>> ELSE pipe
           check == is_banned_command(command)
           log(result, sent, lines, marker) ==
               [tool |-> "Bash", id |-> id, command |-> command, timeout |-> timeout,
                raised |-> check.raised, result |-> result, sent |-> sent,
                started |-> started, lines |-> lines, marker |-> marker]
       IN IF check.raised \/ check.banned
          THEN /\ shell_alive' = TRUE
               /\ pipe' = pending
               /\ shell_last' = log(IF check.raised THEN "" ELSE BannedError, FALSE, <<>>, 0)
          ELSE \/ \E produced \in 0..MaxLines :
                    \E o \in read_outcomes(pending \o output_of(id, produced), timeout) :
                        /\ shell_alive' = o.alive
                        /\ pipe' = o.rest
                        /\ shell_last' = log(o.result, TRUE, o.lines, o.marker)
               \/ /\ shell_alive' = FALSE
                  /\ pipe' = pending
                  /\ shell_last' = log(ExecuteError, FALSE, <<>>, 0)
    /\ UNCHANGED <<agentvars, TokenVars, CdVars, LlmVars>>

\* the shell process ends between two calls (an exit in a command, a signal)
ShellExits ==
    /\ shell_alive
    /\ shell_alive' = FALSE
    /\ UNCHANGED <<agentvars, TokenVars, CdVars, LlmVars, pipe, bash_calls, shell_last>>

\* PowerShellTool.forward: a fresh process for every command that passes the
\* check; started = a process was started for the command
PsForward(command, timeout) ==
    /\ LET log(result, started) ==
               [tool |-> "PowerShell", id |-> bash_calls, command |-> command,
                timeout |-> timeout, raised |-> FALSE, result |-> result,
                sent |-> FALSE, started |-> started, lines |-> <<>>, marker |-> 0]
       IN IF ps_is_banned_command(command)
          THEN shell_last' = log(BannedError, FALSE)
          ELSE \/ \E result \in {Output, TimedOut} : shell_last' = log(result, TRUE)
               \/ shell_last' = log(ExecuteError, FALSE)
    /\ UNCHANGED <<agentvars, TokenVars, CdVars, LlmVars, shell_alive, pipe, bash_calls>>

InitBash == AgentIdle /\ ToolsIdle

NextBash ==
    \/ \E command \in Commands, timeout \in Timeouts : BashForward(command, timeout)
    \/ ShellExits
    \/ \E command \in Commands, timeout \in Timeouts : PsForward(command, timeout)

SpecBash == InitBash /\ [][NextBash]_vars

\* ----------------------------------------------------- claims C21 .. C30
\* the tokens of the str fields and of the 'text' items of one message
counted_tokens(message) ==
    LET of(key) ==
          IF key \notin DOMAIN message THEN 0
          ELSE IF message[key].kind = "str" THEN count_tokens(message[key].text)
          ELSE IF message[key].kind = "list"
          THEN LET items == message[key].items
                   texts == {i \in 1..Len(items) : items[i].kind = "text_dict"}
               IN IF texts = {} THEN 0
                  ELSE count_tokens(items[CHOOSE i \in texts : TRUE].text)
          ELSE 0
    IN of("role") + of("content") + of("name")

\* C21: the count is 3 plus, per message, 3 plus the tokens of its str fields
\* and 'text' items plus 1 for a name; and both counters return this value.
C21_SameCount ==
    LET per(i) == 3 + counted_tokens(message_list[i])
                    + (IF "name" \in DOMAIN message_list[i] THEN 1 ELSE 0)
        expected == 3 + (IF Len(message_list) >= 1 THEN per(1) ELSE 0)
                      + (IF Len(message_list) >= 2 THEN per(2) ELSE 0)
                      + (IF Len(message_list) >= 3 THEN per(3) ELSE 0)
    IN /\ token_totals.history = expected
       /\ ~token_totals.council.raised
       /\ token_totals.council.total = token_totals.history
\* C21 where the tokenizer encodes every counted text
C21_SameCountEncodable ==
    (\A i \in 1..Len(message_list) : \A k \in DOMAIN message_list[i] :
        ~value_raises(message_list[i][k])) => C21_SameCount

\* C22: the call counter starts at 0, a run adds exactly 1 to it on either
\* path and logs under the new number, and clear_conversation,
\* get_context_info and refresh_agent_context leave it alone.
C22_CounterCountsRuns ==
    /\ call_counter = 0
    /\ [][/\ lastOp'.op = "run" =>
               /\ call_counter' = call_counter + 1
               /\ \A k \in DOMAIN debug_files' \ DOMAIN debug_files :
                      k = <<"api_call", call_counter + 1>>
          /\ lastOp'.op \in {"agent_clear", "context_info", "refresh_context"} =>
               call_counter' = call_counter]_vars

\* the second run took the fallback path and was logged as call 2
C22_Witness ==
    /\ lastOp.op = "run"
    /\ Len(lastOp.driver_results) = 2
    /\ ~lastOp.raised
    /\ call_counter = 2
    /\ <<"api_call", 2>> \in DOMAIN debug_files

\* C23: a forward whose target is missing, no directory, restricted or not
\* permitted returns a string starting with 'Error' and leaves the working
\* directory and previous_directory as they were.
C23_ErrorChangesNothing ==
    cd_last.path # "" =>
        LET failed == fs_kind(target_of(cd_last.path, cd_last.previous_before))
                         # "dir"
        IN /\ failed => cd_last.result[1] = "Error"
           /\ cd_last.result[1] = "Error" =>
                /\ working_directory = cd_last.cwd_before
                /\ previous_directory = cd_last.previous_before

\* a change into a directory without permission failed after an earlier
\* successful change
C23_Witness ==
    /\ cd_last.path = "/w/locked"
    /\ cd_last.result[1] = "Error"
    /\ previous_directory # None

\* C24 (as stated): after a successful change from X to Y, forward('-') goes
\* back to X and remembers Y.
C24_DashGoesBack ==
    (cd_last.path = "-" /\ cd_last.previous_before # None) =>
        /\ working_directory = cd_last.previous_before
        /\ previous_directory = cd_last.cwd_before

\* C24 (amended): forward('-') goes back to X and remembers Y provided X is a
\* directory the tool may enter, and otherwise returns an error and changes
\* nothing; previous_directory is the working directory from before the last
\* successful change.
C24_DashGoesBackIfAllowed ==
    /\ (cd_last.path = "-" /\ cd_last.previous_before # None) =>
          IF fs_kind(cd_last.previous_before) = "dir"
          THEN /\ working_directory = cd_last.previous_before
               /\ previous_directory = cd_last.cwd_before
          ELSE /\ cd_last.result[1] = "Error"
               /\ working_directory = cd_last.cwd_before
               /\ previous_directory = cd_last.previous_before
    /\ previous_directory = cd_last.changed_from

\* forward('-') went back from /w/src to /w
C24_Witness ==
    /\ cd_last.path = "-"
    /\ cd_last.cwd_before = "/w/src"
    /\ working_directory = "/w"
    /\ previous_directory = "/w/src"

\* ---------------------------------------------------------------------------
\* the patched litellm.completion (agent.py, create_agent)
\* ---------------------------------------------------------------------------

\* the messages the driver hands to litellm.completion: its own system
\* prompt, or a user message
DriverPrompt == <<"driver">>
RequestMessage(role, content) == [role |-> role, content |-> content]
RequestMessages ==
    {RequestMessage("system", DriverPrompt)}
        \cup {RequestMessage("user", t) : t \in Texts}

RECURSIVE RequestsOfLen(_)
RequestsOfLen(n) ==
    IF n = 0 THEN {<<>>}
    ELSE {Append(r, m) : r \in RequestsOfLen(n - 1), m \in RequestMessages}

Requests == UNION {RequestsOfLen(n) : n \in 0..MaxRequestLen}

is_system(msg) == msg.role = "system"
not_system(msg) == msg.role # "system"

\* smart_completion_wrapper of one create_agent call, prompt being the
\* system_prompt of its closure: the messages it passes to original_completion
smart_completion_wrapper(prompt, request) ==
    IF request # <<>> /\ prompt # <<>>
    THEN <<RequestMessage("system", prompt)>> \o SelectSeq(request, not_system)
    ELSE request

\* litellm.completion(messages=request): the wrapper patched in last runs
\* first and calls the one patched in before it, down to the function of
\* the library
RECURSIVE dispatch(_, _)
dispatch(patches, request) ==
    IF patches = <<>> THEN request
    ELSE dispatch(SubSeq(patches, 1, Len(patches) - 1),
                  smart_completion_wrapper(patches[Len(patches)], request))

\* one completion call of the driver; current = the system prompt of the
\* agent's Context Manager at the time of the call
Complete(request) ==
    /\ last_request' = [sent |-> TRUE, given |-> request,
                        messages |-> dispatch(completion_patches, request),
                        current |-> system_prompt]
    /\ UNCHANGED <<agentvars, TokenVars, CdVars, ShellVars, completion_patches>>

\* the session of main.py after its first create_agent(os.getcwd())
InitCompletion ==
    /\ TokensIdle
    /\ CdIdle
    /\ ShellIdle
    /\ max_interactions = MaxInteractionsBound
    /\ max_tokens = MaxTokensBound
    /\ max_context_tokens = max_tokens
    /\ history = <<>>
    /\ interaction_token_counts = <<>>
    /\ total_tokens = 0
    /\ \E cwd \in Dirs :
          /\ system_prompt = get_system_prompt(cwd)
          /\ completion_patches = <<get_system_prompt(cwd)>>
    /\ last_request = NoRequest
    /\ call_counter = 0
    /\ model_id = "gemini/gemini-2.5-flash"
    /\ inserted = <<>>
    /\ over_budget = FALSE
    /\ lastOp = NoOp
    /\ driver_memory = <<>>
    /\ driver_buffer_attr = "memory"
    /\ debug_enabled = FALSE
    /\ debug_files = NoFiles

NextCompletion ==
    \/ \E request \in Requests : Complete(request)
    \/ \E cwd \in Dirs : RefreshAgentContext(cwd)
    \/ \E cwd \in Dirs : SwitchModel(cwd)

SpecCompletion == InitCompletion /\ [][NextCompletion]_vars

\* the system messages of a request
system_messages(request) == SelectSeq(request, is_system)

\* C29: every request with a non-empty message list that goes through the
\* patched litellm.completion carries exactly one system message, whose
\* content is the system prompt of the current agent's Context Manager, also
\* after refresh_agent_context and after a second create_agent
C29_OneCurrentSystemMessage ==
    (last_request.sent /\ last_request.given # <<>>) =>
        /\ Len(system_messages(last_request.messages)) = 1
        /\ system_messages(last_request.messages)[1].content = last_request.current

\* C29, what holds: exactly one system message, that of the first patch
C29_OneSystemMessage ==
    (last_request.sent /\ last_request.given # <<>>) =>
        /\ Len(system_messages(last_request.messages)) = 1
        /\ system_messages(last_request.messages)[1].content = completion_patches[1]

\* the command names a banned command: the name stands between word boundaries
names_banned_command(command) ==
    \E i \in 1..Len(command) :
        /\ command[i] = BannedName
        /\ i > 1 => command[i - 1] \notin WordPieces
        /\ i < Len(command) => command[i + 1] \notin WordPieces

\* C25: a command containing a banned command name gets the banned-commands
\* error from BashTool.forward and from PowerShellTool.forward, nothing is
\* written to the shell and no process is started, whatever the timeout
C25_BannedNeverSent ==
    (shell_last.tool # "" /\ names_banned_command(shell_last.command)) =>
        /\ ~shell_last.raised
        /\ shell_last.result = BannedError
        /\ ~shell_last.sent
        /\ ~shell_last.started

\* C25, the part _is_banned_command does enforce: a command one of whose shlex tokens,
\* or its basename, is a banned name is never written to the shell
C25_BannedTokenNeverSent ==
    (shell_last.tool = "Bash" /\ is_banned_command(shell_last.command).banned) =>
        shell_last.result = BannedError /\ ~shell_last.sent

\* C26: BashTool.forward returns a string for every command string and never
\* raises, also for banned commands, unbalanced quoting, timeouts and
\* commands that fail to execute
C26_ForwardNeverRaises == shell_last.tool = "Bash" => ~shell_last.raised

\* C26, what holds: forward raises only for a command shlex cannot split
C26_RaisesOnlyUnsplittable ==
    shell_last.raised => shlex_split(shell_last.command).raised

\* C30: a result of BashTool.forward that is not a timeout holds only lines
\* printed by its own command and its read loop ended at its own marker, also
\* after earlier calls timed out
C30_OwnOutputOnly ==
    (shell_last.tool = "Bash" /\ shell_last.result = Output) =>
        /\ \A i \in 1..Len(shell_last.lines) : shell_last.lines[i] = shell_last.id
        /\ shell_last.marker = shell_last.id

\* C30, what holds: the first call on a fresh shell reads its own output
C30_FirstCallOwnOutput ==
    (shell_last.tool = "Bash" /\ shell_last.result = Output /\ shell_last.id = 1) =>
        /\ \A i \in 1..Len(shell_last.lines) : shell_last.lines[i] = 1
        /\ shell_last.marker = 1

\* C27: whenever the system prompt's tokens plus conversation.total_tokens are
\* within max_context_tokens, get_context_info() reports under_limit = TRUE
C27_ReportAgreesWithBudget ==
    system_tokens_of(system_prompt) + total_tokens <= max_context_tokens =>
        get_context_info(system_prompt, history, max_context_tokens).under_limit

\* C27, what holds: the report counts at least what the budget check counts
C27_ReportCountsMore ==
    total_tokens = retained_tokens(history) =>
        get_context_info(system_prompt, history, max_context_tokens).total_tokens
            >= system_tokens_of(system_prompt) + total_tokens

\* C27 for the states that retain an interaction
C27_ReportAgreesWhenRetaining ==
    history # <<>> => C27_ReportAgreesWithBudget

\* C28: an empty history has total_tokens = 0 and the history and the list of
\* per-interaction counts have the same length, for every max_interactions >= 0
\* and every max_tokens
C28_EmptyMeansZero ==
    /\ history = <<>> => total_tokens = 0
    /\ Len(history) = Len(interaction_token_counts)

\* C28, what holds for a history of capacity 0: nothing is ever retained
C28_CapacityZeroRetainsNothing == max_interactions = 0 => history = <<>>

====
